---- MODULE Spec2Model ----
(***************************************************************************)
(* A model of the vim front end of the codex protocol:                     *)
(*   python3/codex.py                   CodexSession, CodexBuffers,        *)
(*                                      ApplyPatchBuffer, the registry     *)
(*   python3/codex_protocol_event.py    Event.from_json and its variants   *)
(*   python3/codex_protocol_submission.py  Submission and its operations   *)
(*                                                                         *)
(* Representation.  A line of a vim buffer is a tuple of string fragments  *)
(* (the pieces an f-string concatenates), the empty line is <<>>.  A text  *)
(* (a python str that may hold "\n") is the non-empty sequence of the      *)
(* pieces between its "\n" characters.  A JSON object is a record whose    *)
(* DOMAIN is the set of keys present.                                      *)
(***************************************************************************)
EXTENDS Integers, Sequences, FiniteSets, TLC

VARIABLES
    sessions,       \* CodexSession.sessions, the class-level list
    codex_session,  \* the module global: a session index or None
    uuid_count,     \* how many uuid4() values Submission has drawn
    trace           \* history: every call made on a session, in order

vars == <<sessions, codex_session, uuid_count, trace>>

(* Bounds of the model. *)
MaxSteps == 3
MaxSessions == 2

None == "None"

\* The module global codex_session when it is None.
NoSession == -1

(* ------------------------------------------------------------------ *)
(* Texts and lines                                                    *)
(* ------------------------------------------------------------------ *)

EmptyLine == <<>>

\* One line made of one fragment.
L(s) == <<s>>

\* str.splitlines() of a text: a final empty piece (the text ends in "\n",
\* or is empty) gives no line.
Splitlines(text) ==
    IF text[Len(text)] = EmptyLine THEN SubSeq(text, 1, Len(text) - 1) ELSE text

\* "\n".join(lines) of a vim buffer's lines: the pieces are the lines.
Join(lines) == lines

\* a + "\n" + b for texts a and b.
NL(a, b) == a \o b

\* a + b for texts a and b: the last piece of a runs into the first of b.
Cat(a, b) ==
    SubSeq(a, 1, Len(a) - 1) \o <<a[Len(a)] \o b[1]>> \o SubSeq(b, 2, Len(b))

\* d.get(k, default) of a JSON object.
Get(d, k, default) == IF k \in DOMAIN d THEN d[k] ELSE default

\* What an f-string shows for a python None.
NoneText == <<L("None")>>

\* The empty str.
EmptyText == <<EmptyLine>>

(* ------------------------------------------------------------------ *)
(* codex_protocol_event.py                                            *)
(* ------------------------------------------------------------------ *)

\* FileChange.from_dict without the final fallback: the last test is taken
\* for every remaining type.
FileChange_from_dict_no_fallback(d) ==
    LET t == Get(d, "type", None) IN
    IF t = "add"
      THEN [type |-> "add", content |-> Get(d, "content", None),
            unified_diff |-> None, move_path |-> None]
    ELSE IF t = "delete"
      THEN [type |-> "delete", content |-> None,
            unified_diff |-> None, move_path |-> None]
    ELSE [type |-> "update", content |-> None,
          unified_diff |-> Get(d, "unified_diff", None),
          move_path |-> Get(d, "move_path", None)]

\* FileChange.from_dict: add, delete, update; anything else is a delete.
FileChange_from_dict(d) ==
    LET t == Get(d, "type", None) IN
    IF t = "add"
      THEN [type |-> "add", content |-> Get(d, "content", None),
            unified_diff |-> None, move_path |-> None]
    ELSE IF t = "delete"
      THEN [type |-> "delete", content |-> None,
            unified_diff |-> None, move_path |-> None]
    ELSE IF t = "update"
      THEN [type |-> "update", content |-> None,
            unified_diff |-> Get(d, "unified_diff", None),
            move_path |-> Get(d, "move_path", None)]
    ELSE [type |-> "delete", content |-> None,
          unified_diff |-> None, move_path |-> None]

\* The changes of a patch event: a dict in insertion order, here the
\* sequence of its (path, change) items.
Changes_from_dict(d) ==
    LET items == Get(d, "changes", <<>>) IN
    [j \in 1..Len(items) |->
        [path |-> items[j].path, change |-> FileChange_from_dict(items[j].change)]]

\* HistoryEntry(**entry) of a get_history_entry_response: a TypeError when
\* the keys of entry are not exactly the fields of HistoryEntry.
HistoryEntry_raises(d) ==
    /\ "entry" \in DOMAIN d
    /\ DOMAIN d.entry # {"session_id", "ts", "text"}

\* EventMessage.from_dict: the variant chosen by d.get("type"); the record
\* of class TypeError stands for the call raising it.
EventMessage_from_dict(d) ==
    LET t == Get(d, "type", None) IN
    IF t = "error"
      THEN [cls |-> "ErrorEvent", message |-> Get(d, "message", NoneText)]
    ELSE IF t = "task_started"
      THEN [cls |-> "TaskStarted"]
    ELSE IF t = "task_complete"
      THEN [cls |-> "TaskCompleteEvent"]
    ELSE IF t = "token_count"
      THEN [cls |-> "TokenCount"]
    ELSE IF t = "agent_message"
      THEN [cls |-> "AgentMessageEvent", message |-> Get(d, "message", NoneText)]
    ELSE IF t = "agent_reasoning"
      THEN [cls |-> "AgentReasoningEvent", text |-> Get(d, "text", NoneText)]
    ELSE IF t = "session_configured"
      THEN [cls |-> "SessionConfiguredEvent"]
    ELSE IF t = "mcp_tool_call_begin"
      THEN [cls |-> "McpToolCallBeginEvent", call_id |-> Get(d, "call_id", None)]
    ELSE IF t = "mcp_tool_call_end"
      THEN [cls |-> "McpToolCallEndEvent", call_id |-> Get(d, "call_id", None)]
    ELSE IF t = "exec_command_begin"
      THEN [cls |-> "ExecCommandBeginEvent",
            call_id |-> Get(d, "call_id", None),
            command |-> Get(d, "command", EmptyLine)]
    ELSE IF t = "exec_command_end"
      THEN [cls |-> "ExecCommandEndEvent",
            call_id |-> Get(d, "call_id", None),
            exit_code |-> Get(d, "exit_code", 0)]
    ELSE IF t = "exec_approval_request"
      THEN [cls |-> "ExecApprovalRequestEvent",
            command |-> Get(d, "command", EmptyLine),
            cwd |-> Get(d, "cwd", "None"),
            reason |-> Get(d, "reason", EmptyText)]
    ELSE IF t = "apply_patch_approval_request"
      THEN [cls |-> "ApplyPatchApprovalRequestEvent",
            changes |-> Changes_from_dict(d),
            reason |-> Get(d, "reason", EmptyText)]
    ELSE IF t = "background_event"
      THEN [cls |-> "BackgroundEvent"]
    ELSE IF t = "patch_apply_begin"
      THEN [cls |-> "PatchApplyBeginEvent", call_id |-> Get(d, "call_id", None),
            changes |-> Changes_from_dict(d)]
    ELSE IF t = "patch_apply_end"
      THEN [cls |-> "PatchApplyEndEvent", call_id |-> Get(d, "call_id", None)]
    ELSE IF t = "get_history_entry_response"
      THEN IF HistoryEntry_raises(d)
             THEN [cls |-> "TypeError"]
             ELSE [cls |-> "GetHistoryEntryResponseEvent"]
    ELSE [cls |-> "UnknownEvent"]

\* Event.from_json: json.loads raises on text that is no JSON, d["id"] and
\* d["msg"] raise KeyError on an object without the key.
Event_from_json(line) ==
    IF line.json # "object" \/ "id" \notin DOMAIN line.obj
                            \/ "msg" \notin DOMAIN line.obj
      THEN [raised |-> TRUE]
    ELSE IF EventMessage_from_dict(line.obj.msg).cls = "TypeError"
      THEN [raised |-> TRUE]
    ELSE [raised |-> FALSE, id |-> line.obj.id,
          message |-> EventMessage_from_dict(line.obj.msg)]

\* str(message) of a dataclass: one line, the class name and its fields.
StrOf(message) == <<<<message.cls, "(...)">>>>

(* ------------------------------------------------------------------ *)
(* codex_protocol_submission.py                                       *)
(* ------------------------------------------------------------------ *)

ReviewDecision == {"approved", "approved_for_session", "denied", "abort"}

\* Interrupt.to_dict
Interrupt == [type |-> "interrupt"]

\* TextInput.to_dict
TextInput(text) == [type |-> "text", text |-> text]

\* UserInput.to_dict
UserInput(items) == [type |-> "user_input", items |-> items]

\* ExecApproval.to_dict
ExecApproval(id, decision) ==
    [type |-> "exec_approval", id |-> id, decision |-> decision]

\* PatchApproval.to_dict
PatchApproval(id, decision) ==
    [type |-> "patch_approval", id |-> id, decision |-> decision]

\* Submission(operation=op).to_json(): the id is the next uuid4() value.
Submission(op, uuid) == [id |-> uuid, op |-> op]

(* ------------------------------------------------------------------ *)
(* codex.py: the result of a call                                     *)
(* ------------------------------------------------------------------ *)

\* A call that returned, leaving the session as s and having drawn
\* n uuid4() values.
Ok(s, n) == [s |-> s, raised |-> FALSE, uuids |-> n]

\* A call that raised, leaving the session as s.
Raise(s, n) == [s |-> s, raised |-> TRUE, uuids |-> n]

(* ------------------------------------------------------------------ *)
(* codex.py: CodexBuffers and ApplyPatchBuffer                        *)
(* ------------------------------------------------------------------ *)

TitleReady == "CODEX output [READY]"
TitleThinking == "CODEX output [THINKING...]"

\* The python view of an empty vim buffer: one empty line.
EmptyBuffer == <<EmptyLine>>

\* The empty output buffer; by = 0 tags the line as written by no call.
EmptyOutput == <<[text |-> EmptyLine, by |-> 0]>>

\* The lines a buffer holds after buffer[:] = lines.
SetLines(lines) == IF lines = <<>> THEN EmptyBuffer ELSE lines

\* " ".join(command)
Sp(command) ==
    [j \in 1..(2 * Len(command) - 1) |->
        IF j % 2 = 1 THEN command[(j + 1) \div 2] ELSE " "]

\* CodexBuffers.append_output: text.splitlines() + [""] goes after the last
\* line; k tags the lines with the call that wrote them.
append_output(s, text, k) ==
    LET lines == Splitlines(text) \o <<EmptyLine>> IN
    [s EXCEPT !.output_buffer =
        @ \o [j \in 1..Len(lines) |-> [text |-> lines[j], by |-> k]]]

\* re.search(r"command \(running\.\.\.\)", line)
RunningPattern == "command (running...)"
re_search(line) == \E j \in 1..Len(line) : line[j] = RunningPattern

\* re.sub(pattern, repl, line)
re_sub(repl, line) ==
    [j \in 1..Len(line) |-> IF line[j] = RunningPattern THEN repl ELSE line[j]]

\* CodexBuffers.replace_last_output_line: the loop over the reversed indices
\* has no break, so every matching line is rewritten.
replace_last_output_line(s, repl) ==
    LET buf == s.output_buffer IN
    [s EXCEPT !.output_buffer =
        [j \in 1..Len(buf) |->
            IF re_search(buf[j].text)
              THEN [text |-> re_sub(repl, buf[j].text), by |-> buf[j].by]
              ELSE buf[j]]]

\* CodexBuffers.show_status_in_input
show_status_in_input(s, message) ==
    [s EXCEPT !.input_buffer = SetLines(Splitlines(message)),
              !.input_modifiable = FALSE]

\* hide_status_in_input ending as show_status_in_input does, with
\* 'modifiable' switched off again.
hide_status_in_input_locks(s) ==
    [s EXCEPT !.input_buffer = EmptyBuffer, !.input_modifiable = FALSE]

\* CodexBuffers.hide_status_in_input: 'modifiable' stays on.
hide_status_in_input(s) ==
    [s EXCEPT !.input_buffer = EmptyBuffer, !.input_modifiable = TRUE]

\* ApplyPatchBuffer.show: the patch window opens on (path, unified_diff);
\* patch_shows counts the calls.
apply_patch_show(s, path, unified_diff) ==
    [s EXCEPT !.patch_window = TRUE, !.patch_path = path,
              !.patch_diff = unified_diff, !.patch_shows = @ + 1]

\* ApplyPatchBuffer.hide: only when the patch window exists.
apply_patch_hide(s) ==
    IF s.patch_window THEN [s EXCEPT !.patch_window = FALSE] ELSE s

\* CodexBuffers.delete and ApplyPatchBuffer.delete: :bdelete unloads the
\* buffer (a nofile buffer loses its lines), closes its windows and resets
\* its local options; the python Buffer objects stay valid.
buffers_delete(s) ==
    [s EXCEPT !.buffers_deleted = TRUE,
              !.output_buffer = EmptyOutput,
              !.input_buffer = EmptyBuffer,
              !.input_modifiable = TRUE,
              !.patch_window = FALSE]

(* ------------------------------------------------------------------ *)
(* codex.py: CodexSession                                             *)
(* ------------------------------------------------------------------ *)

\* CodexSession.__init__: the job is started, the buffers are created and
\* shown, no approval request is recorded.
NewSession(idx) ==
    [session_idx |-> idx,
     job |-> "run",
     buffers_deleted |-> FALSE,
     output_name |-> TitleReady,
     titles |-> <<TitleReady>>,
     output_buffer |-> EmptyOutput,
     input_buffer |-> EmptyBuffer,
     input_modifiable |-> TRUE,
     patch_window |-> FALSE,
     patch_path |-> None,
     patch_diff |-> None,
     patch_shows |-> 0,
     last_approval_request_type |-> None,
     last_approval_request_submission_id |-> None,
     sent |-> <<>>]

\* The outcome of a handler whose only vim operation comes last: fail says
\* that vim raised vim.error there.
AfterVim(fail, before, after) ==
    IF fail THEN Raise(before, 0) ELSE Ok(after, 0)

\* _handle_agent_message that also resets the title, as if the message
\* ended the task.
handle_agent_message_resets_title(s, id, message, k, fail) ==
    AfterVim(fail, s,
             [append_output(s, NL(<<L("codex")>>, message.message), k)
                 EXCEPT !.output_name = TitleReady,
                        !.titles = Append(@, TitleReady)])

\* CodexSession._handle_agent_message
handle_agent_message(s, id, message, k, fail) ==
    AfterVim(fail, s, append_output(s, NL(<<L("codex")>>, message.message), k))

\* CodexSession._handle_agent_reasoning
handle_agent_reasoning(s, id, message, k, fail) ==
    AfterVim(fail, s,
             append_output(s, NL(<<L("codex (reasoning)")>>, message.text), k))

\* CodexSession._handle_error
handle_error(s, id, message, k, fail) ==
    AfterVim(fail, s, append_output(s, NL(<<L("ERROR")>>, message.message), k))

\* Assigning output_buffer.name.
set_title(s, name) ==
    [s EXCEPT !.output_name = name, !.titles = Append(@, name)]

\* CodexSession._handle_task_started
handle_task_started(s, id, message, k, fail) ==
    AfterVim(fail, s, set_title(s, TitleThinking))

\* _handle_task_completed that also drops the recorded approval request.
handle_task_completed_drops_request(s, id, message, k, fail) ==
    AfterVim(fail, s,
             [set_title(s, TitleReady)
                 EXCEPT !.last_approval_request_type = None])

\* CodexSession._handle_task_completed
handle_task_completed(s, id, message, k, fail) ==
    AfterVim(fail, s, set_title(s, TitleReady))

\* _handle_exec_approval_request that records the kind but not the id.
handle_exec_approval_request_keeps_id(s, id, message, k, fail) ==
    LET s1 == [s EXCEPT !.last_approval_request_type = "exec"]
        status == NL(Cat(<<L("EXEC APPROVAL REQUEST: ")>>, message.reason),
                     <<<<"[", message.cwd, "]$ ">> \o Sp(message.command)>>)
    IN  AfterVim(fail, s1, show_status_in_input(s1, status))

\* CodexSession._handle_exec_approval_request: the two fields are assigned
\* before the status is shown.
handle_exec_approval_request(s, id, message, k, fail) ==
    LET s1 == [s EXCEPT !.last_approval_request_type = "exec",
                        !.last_approval_request_submission_id = id]
        status == NL(Cat(<<L("EXEC APPROVAL REQUEST: ")>>, message.reason),
                     <<<<"[", message.cwd, "]$ ">> \o Sp(message.command)>>)
    IN  AfterVim(fail, s1, show_status_in_input(s1, status))

\* CodexSession._handle_exec_command_begin
handle_exec_command_begin(s, id, message, k, fail) ==
    AfterVim(fail, s,
             append_output(s, <<L(RunningPattern),
                                <<"$ ">> \o Sp(message.command)>>, k))

\* CodexSession._handle_exec_command_end: message.call_id is not read.
handle_exec_command_end(s, id, message, k, fail) ==
    AfterVim(fail, s,
             replace_last_output_line(
                 s, IF message.exit_code = 0 THEN "command (OK)"
                                             ELSE "command (ERROR)"))

\* CodexSession._file_changes_summary: "\n".join of one "<type> <path>" per
\* change; the join of no lines is the empty str.
file_changes_summary(changes) ==
    IF changes = <<>> THEN EmptyText
    ELSE [j \in 1..Len(changes) |->
             <<changes[j].change.type, " ", changes[j].path>>]

\* The update-type changes, in the order of the dict.
update_changes(changes) ==
    SelectSeq(changes, LAMBDA c : c.change.type = "update")

\* _handle_apply_patch_approval_request previewing the last update-type
\* change instead of the first.
handle_apply_patch_approval_request_last_update(s, id, message, k, fail) ==
    LET s1 == [s EXCEPT !.last_approval_request_type = "patch",
                        !.last_approval_request_submission_id = id]
        status == NL(Cat(<<L("PATCH APPROVAL REQUEST: ")>>, message.reason),
                     file_changes_summary(message.changes))
        s2 == show_status_in_input(s1, status)
        upd == update_changes(message.changes)
    IN  AfterVim(fail, s1,
                 IF Len(upd) > 0
                   THEN apply_patch_show(s2, upd[Len(upd)].path,
                                         upd[Len(upd)].change.unified_diff)
                   ELSE s2)

\* CodexSession._handle_apply_patch_approval_request
handle_apply_patch_approval_request(s, id, message, k, fail) ==
    LET s1 == [s EXCEPT !.last_approval_request_type = "patch",
                        !.last_approval_request_submission_id = id]
        status == NL(Cat(<<L("PATCH APPROVAL REQUEST: ")>>, message.reason),
                     file_changes_summary(message.changes))
        s2 == show_status_in_input(s1, status)
        upd == update_changes(message.changes)
    IN  AfterVim(fail, s1,
                 IF Len(upd) > 0
                   THEN apply_patch_show(s2, upd[1].path,
                                         upd[1].change.unified_diff)
                   ELSE s2)

\* CodexSession._handle_patch_apply_begin
handle_patch_apply_begin(s, id, message, k, fail) ==
    AfterVim(fail, s, append_output(s, StrOf(message), k))

\* CodexSession._handle_patch_apply_end
handle_patch_apply_end(s, id, message, k, fail) ==
    AfterVim(fail, s, append_output(s, StrOf(message), k))

\* _handle_job_output without its last branch: an event no handler exists
\* for is dropped.
handle_job_output_drops_unhandled(s, message_str, k, fail) ==
    LET event == Event_from_json(message_str) IN
    IF event.raised THEN Raise(s, 0)
    ELSE LET m == event.message IN
         IF m.cls = "AgentMessageEvent"
           THEN handle_agent_message(s, event.id, m, k, fail)
         ELSE IF m.cls = "AgentReasoningEvent"
           THEN handle_agent_reasoning(s, event.id, m, k, fail)
         ELSE IF m.cls = "ErrorEvent"
           THEN handle_error(s, event.id, m, k, fail)
         ELSE IF m.cls = "TaskStarted"
           THEN handle_task_started(s, event.id, m, k, fail)
         ELSE IF m.cls = "TaskCompleteEvent"
           THEN handle_task_completed(s, event.id, m, k, fail)
         ELSE IF m.cls = "ExecApprovalRequestEvent"
           THEN handle_exec_approval_request(s, event.id, m, k, fail)
         ELSE IF m.cls = "ExecCommandBeginEvent"
           THEN handle_exec_command_begin(s, event.id, m, k, fail)
         ELSE IF m.cls = "ExecCommandEndEvent"
           THEN handle_exec_command_end(s, event.id, m, k, fail)
         ELSE IF m.cls = "ApplyPatchApprovalRequestEvent"
           THEN handle_apply_patch_approval_request(s, event.id, m, k, fail)
         ELSE IF m.cls = "PatchApplyBeginEvent"
           THEN handle_patch_apply_begin(s, event.id, m, k, fail)
         ELSE IF m.cls = "PatchApplyEndEvent"
           THEN handle_patch_apply_end(s, event.id, m, k, fail)
         ELSE Ok(s, 0)

\* CodexSession._handle_job_output: decode the line, then the isinstance
\* chain; the last branch renders str(event.message).
handle_job_output(s, message_str, k, fail) ==
    LET event == Event_from_json(message_str) IN
    IF event.raised THEN Raise(s, 0)
    ELSE LET m == event.message IN
         IF m.cls = "AgentMessageEvent"
           THEN handle_agent_message(s, event.id, m, k, fail)
         ELSE IF m.cls = "AgentReasoningEvent"
           THEN handle_agent_reasoning(s, event.id, m, k, fail)
         ELSE IF m.cls = "ErrorEvent"
           THEN handle_error(s, event.id, m, k, fail)
         ELSE IF m.cls = "TaskStarted"
           THEN handle_task_started(s, event.id, m, k, fail)
         ELSE IF m.cls = "TaskCompleteEvent"
           THEN handle_task_completed(s, event.id, m, k, fail)
         ELSE IF m.cls = "ExecApprovalRequestEvent"
           THEN handle_exec_approval_request(s, event.id, m, k, fail)
         ELSE IF m.cls = "ExecCommandBeginEvent"
           THEN handle_exec_command_begin(s, event.id, m, k, fail)
         ELSE IF m.cls = "ExecCommandEndEvent"
           THEN handle_exec_command_end(s, event.id, m, k, fail)
         ELSE IF m.cls = "ApplyPatchApprovalRequestEvent"
           THEN handle_apply_patch_approval_request(s, event.id, m, k, fail)
         ELSE IF m.cls = "PatchApplyBeginEvent"
           THEN handle_patch_apply_begin(s, event.id, m, k, fail)
         ELSE IF m.cls = "PatchApplyEndEvent"
           THEN handle_patch_apply_end(s, event.id, m, k, fail)
         ELSE AfterVim(fail, s, append_output(s, StrOf(m), k))

\* _send with a Submission whose id default is evaluated once, when the
\* class is defined: every submission carries the same id.
send_same_id(s, op, k, uuid, cfail) ==
    LET submission == Submission(op, 0) IN
    IF cfail THEN Raise(s, 1)
    ELSE Ok([s EXCEPT !.sent = Append(@, [by |-> k, id |-> submission.id,
                                          op |-> submission.op])], 1)

\* CodexSession._send: a Submission with a fresh id is handed to
\* SendToCodexJob; cfail says that ch_sendraw raised.  The session keeps the
\* lines handed over, each tagged with the call k that sent it.
send(s, op, k, uuid, cfail) ==
    LET submission == Submission(op, uuid) IN
    IF cfail THEN Raise(s, 1)
    ELSE Ok([s EXCEPT !.sent = Append(@, [by |-> k, id |-> submission.id,
                                          op |-> submission.op])], 1)

\* CodexSession.interrupt
interrupt(s, k, uuid, cfail) == send(s, Interrupt, k, uuid, cfail)

\* CodexSession.send_user_message: del input_buffer[:] raises vim.error when
\* the buffer's 'modifiable' is off, before anything is appended or sent.
send_user_message(s, k, uuid, fail, cfail) ==
    LET text == Join(s.input_buffer)
        s1 == [s EXCEPT !.input_buffer = EmptyBuffer]
        s2 == append_output(
                  s1, NL(<<EmptyLine, L("user")>>, NL(text, <<EmptyLine>>)), k)
    IN  IF fail \/ ~s.input_modifiable THEN Raise(s, 0)
        ELSE send(s2, UserInput(<<TextInput(text)>>), k, uuid, cfail)

\* approval with the kinds confused: the decision on a patch request goes
\* out as an exec_approval.
approval_kinds_confused(s, decision, k, uuid, fail, cfail) ==
    IF s.last_approval_request_type # None
      THEN LET id == s.last_approval_request_submission_id
               r == send(s, ExecApproval(id, decision), k, uuid, cfail)
               s1 == IF s.last_approval_request_type = "patch"
                       THEN apply_patch_hide(r.s) ELSE r.s
           IN  IF r.raised THEN r
               ELSE IF fail THEN Raise(s1, 1)
               ELSE Ok([hide_status_in_input(s1)
                           EXCEPT !.last_approval_request_type = None], 1)
      ELSE Ok(s, 0)

\* approval that forgets to clear the request it answered.
approval_not_cleared(s, decision, k, uuid, fail, cfail) ==
    IF s.last_approval_request_type # None
      THEN LET id == s.last_approval_request_submission_id
               r == IF s.last_approval_request_type = "exec"
                      THEN send(s, ExecApproval(id, decision), k, uuid, cfail)
                      ELSE send(s, PatchApproval(id, decision), k, uuid, cfail)
               s1 == IF s.last_approval_request_type = "patch"
                       THEN apply_patch_hide(r.s) ELSE r.s
           IN  IF r.raised THEN r
               ELSE IF fail THEN Raise(s1, 1)
               ELSE Ok(hide_status_in_input(s1), 1)
      ELSE Ok(s, 0)

\* approval clearing the request in the exec branch only: a patch request
\* stays recorded after its decision.
approval_patch_not_cleared(s, decision, k, uuid, fail, cfail) ==
    IF s.last_approval_request_type # None
      THEN LET id == s.last_approval_request_submission_id
               r == IF s.last_approval_request_type = "exec"
                      THEN send(s, ExecApproval(id, decision), k, uuid, cfail)
                      ELSE send(s, PatchApproval(id, decision), k, uuid, cfail)
               s1 == IF s.last_approval_request_type = "patch"
                       THEN apply_patch_hide(r.s) ELSE r.s
           IN  IF r.raised THEN r
               ELSE IF fail THEN Raise(s1, 1)
               ELSE IF s.last_approval_request_type = "exec"
                 THEN Ok([hide_status_in_input(s1)
                             EXCEPT !.last_approval_request_type = None], 1)
               ELSE Ok(hide_status_in_input(s1), 1)
      ELSE Ok(s, 0)

\* CodexSession.approval
approval(s, decision, k, uuid, fail, cfail) ==
    IF s.last_approval_request_type # None
      THEN LET id == s.last_approval_request_submission_id
               r == IF s.last_approval_request_type = "exec"
                      THEN send(s, ExecApproval(id, decision), k, uuid, cfail)
                      ELSE send(s, PatchApproval(id, decision), k, uuid, cfail)
               s1 == IF s.last_approval_request_type = "patch"
                       THEN apply_patch_hide(r.s) ELSE r.s
           IN  IF r.raised THEN r
               ELSE IF fail THEN Raise(s1, 1)
               ELSE Ok([hide_status_in_input(s1)
                           EXCEPT !.last_approval_request_type = None], 1)
      ELSE Ok(s, 0)

\* CodexSession.stop: the job is killed, then the buffers are deleted.
stop(s, fail) ==
    LET s1 == [s EXCEPT !.job = "killed"] IN
    AfterVim(fail, s1, buffers_delete(s1))

(* ------------------------------------------------------------------ *)
(* The environment: what vim and the job may do                       *)
(* ------------------------------------------------------------------ *)

\* Whether a vim buffer operation may raise vim.error: on a live session it
\* does not (writes to a 'nomodifiable' buffer apart, which the handlers
\* decide themselves); once the buffers were :bdelete'd either outcome is
\* possible.
VimFailures(s) == IF s.buffers_deleted THEN BOOLEAN ELSE {FALSE}

\* Whether ch_sendraw may raise: only once the job was killed, when the
\* channel closes at a moment the session does not control.
ChanFailures(s) == IF s.job = "killed" THEN BOOLEAN ELSE {FALSE}

\* One line of JSON text holding the object obj, and a line that is no JSON.
JsonLine(obj) == [json |-> "object", obj |-> obj]
BadJsonLine == [json |-> "invalid"]
NoLine == [json |-> "none"]

\* An event line with id and msg.
EventLine(id, msg) == JsonLine([id |-> id, msg |-> msg])

(* Inputs of the model: the lines the job may deliver, the texts a user may
   type, the decisions a user may give. *)
Hi == <<L("hi")>>
Yo == <<L("yo")>>
Texts == {Hi, Yo}

UpdateA == [path |-> "a.py", change |-> [type |-> "update", unified_diff |-> "diff-a"]]
AddB == [path |-> "b.py", change |-> [type |-> "add", content |-> "text-b"]]
UpdateC ==
    [path |-> "c.py",
     change |-> [type |-> "update", unified_diff |-> "diff-c",
                 move_path |-> "c2.py", content |-> "text-c"]]
DeleteD == [path |-> "d.py", change |-> [type |-> "delete", content |-> "text-d"]]
AddE ==
    [path |-> "e.py",
     change |-> [type |-> "add", content |-> "text-e", unified_diff |-> "diff-e"]]
RenameF ==
    [path |-> "f.py", change |-> [type |-> "rename", unified_diff |-> "diff-f"]]
NoTypeG == [path |-> "g.py", change |-> [content |-> "text-g"]]

\* The changes dicts of the patch requests, each in its insertion order.
ChangeLists ==
    {<<>>, <<AddB>>, <<UpdateA>>, <<AddB, UpdateA>>, <<UpdateA, UpdateC>>,
     <<UpdateC, DeleteD, UpdateA>>, <<RenameF, NoTypeG>>, <<AddE, DeleteD>>}

TaskStartedLine == EventLine("1", [type |-> "task_started"])
TaskCompleteLine == EventLine("1", [type |-> "task_complete"])
AgentMessageLine == EventLine("1", [type |-> "agent_message", message |-> Hi])
ExecRequestLine(id) ==
    EventLine(id, [type |-> "exec_approval_request", command |-> <<"rm", "x">>,
                   cwd |-> "/w", reason |-> <<L("why")>>])
PatchRequestLine(id, changes) ==
    EventLine(id, [type |-> "apply_patch_approval_request", changes |-> changes])
ExecBeginLine(c) ==
    EventLine("1", [type |-> "exec_command_begin", call_id |-> c,
                    command |-> <<"ls">>])
ExecEndLine(c, code) ==
    EventLine("1", [type |-> "exec_command_end", call_id |-> c,
                    exit_code |-> code])

\* Events no handler exists for, and one whose type is no known tag.
TokenCountLine == EventLine("1", [type |-> "token_count", total_tokens |-> 7])
BackgroundLine == EventLine("1", [type |-> "background_event", message |-> Hi])
McpBeginLine == EventLine("1", [type |-> "mcp_tool_call_begin", call_id |-> "c1"])
McpEndLine == EventLine("1", [type |-> "mcp_tool_call_end", call_id |-> "c1"])
SessionConfiguredLine == EventLine("1", [type |-> "session_configured"])
HistoryLine ==
    EventLine("1", [type |-> "get_history_entry_response",
                    entry |-> [session_id |-> "s", ts |-> 1, text |-> "t"]])
BadHistoryLine ==
    EventLine("1", [type |-> "get_history_entry_response",
                    entry |-> [text |-> "t"]])
UnknownLine == EventLine("1", [type |-> "shutdown_complete"])
NoTypeLine == EventLine("1", [data |-> "x"])

\* JSON objects without the id, and without the msg.
NoIdLine == JsonLine([msg |-> [type |-> "task_started"]])
NoMsgLine == JsonLine([id |-> "1"])

RequestIds == {"42", "43"}
CallIds == {"c1", "c2"}

\* The lines of the session life cycle: task status and approvals.
SessionLines ==
    {TaskStartedLine, TaskCompleteLine, AgentMessageLine}
    \cup {ExecRequestLine(id) : id \in RequestIds}
    \cup {PatchRequestLine(id, <<UpdateA>>) : id \in RequestIds}

\* The lines of the command display.
ExecLines ==
    {AgentMessageLine}
    \cup {ExecBeginLine(c) : c \in CallIds}
    \cup {ExecEndLine(c, code) : c \in CallIds, code \in {0, 1}}

\* The events not among the lines above.
ErrorLine == EventLine("1", [type |-> "error", message |-> Hi])
ReasoningLine == EventLine("1", [type |-> "agent_reasoning", text |-> Yo])
PatchBeginLine ==
    EventLine("1", [type |-> "patch_apply_begin", call_id |-> "c1",
                    changes |-> <<UpdateA>>])
PatchEndLine == EventLine("1", [type |-> "patch_apply_end", call_id |-> "c1"])

\* One line for every branch of _handle_job_output: the eleven handlers,
\* and for the last branch an informational and an unknown event.
VariantLines ==
    {AgentMessageLine, ReasoningLine, ErrorLine, TaskStartedLine,
     TaskCompleteLine, ExecRequestLine("42"), ExecBeginLine("c1"),
     ExecEndLine("c1", 0), PatchRequestLine("43", <<UpdateA>>),
     PatchBeginLine, PatchEndLine, TokenCountLine, UnknownLine}

\* The lines of the patch approvals.
PatchLines ==
    {ExecRequestLine("43")}
    \cup {PatchRequestLine("42", changes) : changes \in ChangeLists}

\* The lines of the decoder: events without a handler, malformed lines,
\* and the two events that set the task status and the pending approval.
DecodeLines ==
    {TokenCountLine, BackgroundLine, McpBeginLine, McpEndLine,
     SessionConfiguredLine, HistoryLine, BadHistoryLine, UnknownLine,
     NoTypeLine, BadJsonLine, NoIdLine, NoMsgLine,
     TaskStartedLine, ExecRequestLine("42")}

(* ------------------------------------------------------------------ *)
(* Actions                                                            *)
(* ------------------------------------------------------------------ *)

Init ==
    /\ sessions = <<>>
    /\ codex_session = NoSession
    /\ uuid_count = 0
    /\ trace = <<>>

\* The indices of the sessions created so far.
SessionIdxs == 0..(Len(sessions) - 1)

\* sessions[idx]
At(idx) == sessions[idx + 1]

\* The entry a call leaves in the history.
Entry(op, idx, line, decision, r) ==
    [op |-> op, idx |-> idx, line |-> line, decision |-> decision,
     raised |-> r.raised]

\* A call on sessions[idx] with the two approval fields kept on the class
\* instead of the instance: what the call assigns shows in every session.
Called_class_level_approval(idx, entry, r) ==
    /\ Len(trace) < MaxSteps
    /\ sessions' =
          [j \in 1..Len(sessions) |->
              IF j = idx + 1 THEN r.s
              ELSE [sessions[j] EXCEPT
                      !.last_approval_request_type =
                          r.s.last_approval_request_type,
                      !.last_approval_request_submission_id =
                          r.s.last_approval_request_submission_id]]
    /\ uuid_count' = uuid_count + r.uuids
    /\ trace' = Append(trace, entry)

\* A call on sessions[idx] ended as r.
Called(idx, entry, r) ==
    /\ Len(trace) < MaxSteps
    /\ sessions' = [sessions EXCEPT ![idx + 1] = r.s]
    /\ uuid_count' = uuid_count + r.uuids
    /\ trace' = Append(trace, entry)

\* HandleCodexJobOutput<idx> answering an approval request by itself: once
\* the line is handled, a pending request is approved at once.
JobOutput_auto_approves(idx, line) ==
    \E fail \in VimFailures(At(idx)) :
        LET k == Len(trace) + 1
            r0 == handle_job_output(At(idx), line, k, fail)
            r == IF ~r0.raised /\ r0.s.last_approval_request_type # None
                   THEN approval(r0.s, "approved", k, uuid_count + 1,
                                 fail, FALSE)
                   ELSE r0
        IN  /\ Called(idx, Entry("on_line", idx, line, None, r), r)
            /\ UNCHANGED codex_session

\* HandleCodexJobOutput<idx>: the job's channel delivers a line.
JobOutput(idx, line) ==
    \E fail \in VimFailures(At(idx)) :
        LET r == handle_job_output(At(idx), line, Len(trace) + 1, fail) IN
        /\ Called(idx, Entry("on_line", idx, line, None, r), r)
        /\ UNCHANGED codex_session

\* <Enter> in the prompt buffer, or the same call made directly.
SendUserMessage(idx) ==
    \E fail \in VimFailures(At(idx)), cfail \in ChanFailures(At(idx)) :
        LET r == send_user_message(At(idx), Len(trace) + 1, uuid_count + 1,
                                   fail, cfail) IN
        /\ Called(idx, Entry("send_user_message", idx, NoLine, None, r), r)
        /\ UNCHANGED codex_session

\* <C-C>
InterruptCall(idx) ==
    \E cfail \in ChanFailures(At(idx)) :
        LET r == interrupt(At(idx), Len(trace) + 1, uuid_count + 1, cfail) IN
        /\ Called(idx, Entry("interrupt", idx, NoLine, None, r), r)
        /\ UNCHANGED codex_session

\* <C-A>, <C-D>, or approval(decision) called directly.
ApprovalCall(idx, decision) ==
    \E fail \in VimFailures(At(idx)), cfail \in ChanFailures(At(idx)) :
        LET r == approval(At(idx), decision, Len(trace) + 1, uuid_count + 1,
                         fail, cfail) IN
        /\ Called(idx, Entry("approval", idx, NoLine, decision, r), r)
        /\ UNCHANGED codex_session

\* sessions[idx].stop() called directly.
StopCall(idx) ==
    \E fail \in VimFailures(At(idx)) :
        LET r == stop(At(idx), fail) IN
        /\ Called(idx, Entry("stop", idx, NoLine, None, r), r)
        /\ UNCHANGED codex_session

\* The user types text into the prompt buffer: vim allows it only while the
\* buffer is shown and 'modifiable'.
UserTypes(idx, text) ==
    /\ ~At(idx).buffers_deleted
    /\ At(idx).input_modifiable
    /\ At(idx).input_buffer # text
    /\ sessions' = [sessions EXCEPT ![idx + 1].input_buffer = text]
    /\ UNCHANGED <<codex_session, uuid_count, trace>>

\* start_codex_session with CodexSession.sessions holding the running
\* sessions only: a new session takes the index a stopped one had.
StartCodexSession_reuses_index ==
    IF codex_session = NoSession
      THEN LET running == SelectSeq(sessions, LAMBDA s : s.job = "run") IN
           /\ Len(sessions) < MaxSessions
           /\ sessions' = Append(running, NewSession(Len(running)))
           /\ codex_session' = Len(running)
           /\ UNCHANGED <<uuid_count, trace>>
      ELSE UNCHANGED vars

\* start_codex_session without the test of codex_session.
StartCodexSession_always_creates ==
    /\ Len(sessions) < MaxSessions
    /\ sessions' = Append(sessions, NewSession(Len(sessions)))
    /\ codex_session' = Len(sessions)
    /\ UNCHANGED <<uuid_count, trace>>

\* start_codex_session
StartCodexSession ==
    IF codex_session = NoSession
      THEN /\ Len(sessions) < MaxSessions
           /\ sessions' = Append(sessions, NewSession(Len(sessions)))
           /\ codex_session' = Len(sessions)
           /\ UNCHANGED <<uuid_count, trace>>
      ELSE UNCHANGED vars

\* stop_codex_session, under if_session_exists: codex_session is reset only
\* when stop() returned.
StopCodexSession ==
    IF codex_session # NoSession
      THEN \E fail \in VimFailures(At(codex_session)) :
               LET r == stop(At(codex_session), fail) IN
               /\ Called(codex_session,
                         Entry("stop", codex_session, NoLine, None, r), r)
               /\ codex_session' = IF r.raised THEN codex_session ELSE NoSession
      ELSE UNCHANGED vars

\* Every call, with the job's lines drawn from lines.
NextOver(lines) ==
    \/ StartCodexSession
    \/ StopCodexSession
    \/ \E idx \in SessionIdxs, line \in lines : JobOutput(idx, line)
    \/ \E idx \in SessionIdxs, text \in Texts : UserTypes(idx, text)
    \/ \E idx \in SessionIdxs : SendUserMessage(idx)
    \/ \E idx \in SessionIdxs : InterruptCall(idx)
    \/ \E idx \in SessionIdxs, decision \in ReviewDecision :
           ApprovalCall(idx, decision)
    \/ \E idx \in SessionIdxs : StopCall(idx)

Next == NextOver(SessionLines)
Spec == Init /\ [][Next]_vars

NextExec == NextOver(ExecLines)
SpecExec == Init /\ [][NextExec]_vars

\* The calls the plugin's commands and key mappings make: sessions are
\* stopped by stop_codex_session only.
NextRegistry ==
    \/ StartCodexSession
    \/ StopCodexSession
    \/ \E idx \in SessionIdxs, line \in SessionLines : JobOutput(idx, line)
    \/ \E idx \in SessionIdxs, text \in Texts : UserTypes(idx, text)
    \/ \E idx \in SessionIdxs : SendUserMessage(idx)
    \/ \E idx \in SessionIdxs : InterruptCall(idx)
    \/ \E idx \in SessionIdxs, decision \in ReviewDecision :
           ApprovalCall(idx, decision)
SpecRegistry == Init /\ [][NextRegistry]_vars

NextPatch == NextOver(PatchLines)
SpecPatch == Init /\ [][NextPatch]_vars

NextVariants == NextOver(VariantLines)
SpecVariants == Init /\ [][NextVariants]_vars

NextDecode == NextOver(DecodeLines)
SpecDecode == Init /\ [][NextDecode]_vars

(* ------------------------------------------------------------------ *)
(* Vocabulary of the properties                                       *)
(* ------------------------------------------------------------------ *)

Last(seq) == seq[Len(seq)]

\* stop() was never called on the session.
Live(s) == s.job = "run" /\ ~s.buffers_deleted

\* The approval sub-state: Pending(kind, submission_id) or NoPending.
Pending(s) == s.last_approval_request_type # None

\* The task status shown in the title of the output buffer.
Status(s) == IF s.output_name = TitleThinking THEN "Busy" ELSE "Idle"

\* This step is the call op on sessions[idx].
Did(op, idx) ==
    /\ Len(trace') = Len(trace) + 1
    /\ Last(trace').op = op
    /\ Last(trace').idx = idx

\* The submissions the call k handed to the job of session s.
SentBy(s, k) == SelectSeq(s.sent, LAMBDA x : x.by = k)

\* The approval decisions among the submissions of s.
IsDecision(x) == x.op.type \in {"exec_approval", "patch_approval"}

(* ------------------------------------------------------------------ *)
(* C1                                                                 *)
(* ------------------------------------------------------------------ *)

\* C1: approval correlation.  When approval(decision) is called on a live
\* session whose pending request has kind k and submission id i, the call
\* hands exactly one more submission to the job, of type exec_approval for
\* k = exec and patch_approval for k = patch, with payload id i and the
\* decision given, and no approval is pending afterwards.
C1_ApprovalCorrelation ==
    [][\A idx \in SessionIdxs :
         (Did("approval", idx) /\ Live(At(idx)) /\ Pending(At(idx))) =>
            LET s == At(idx)
                t == sessions'[idx + 1]
                kind == s.last_approval_request_type
            IN  /\ Len(t.sent) = Len(s.sent) + 1
                /\ SubSeq(t.sent, 1, Len(s.sent)) = s.sent
                /\ Last(t.sent).op =
                      [type |-> IF kind = "exec" THEN "exec_approval"
                                                 ELSE "patch_approval",
                       id |-> s.last_approval_request_submission_id,
                       decision |-> Last(trace').decision]
                /\ kind \in {"exec", "patch"}
                /\ ~Pending(t)
                /\ ~Last(trace').raised]_vars

\* A patch request with id "43" was answered "denied" on a live session.
C1_Witness ==
    \E idx \in SessionIdxs :
        /\ Live(At(idx))
        /\ trace # <<>>
        /\ Last(trace).op = "approval" /\ Last(trace).idx = idx
        /\ At(idx).sent # <<>>
        /\ Last(At(idx).sent).op =
              [type |-> "patch_approval", id |-> "43", decision |-> "denied"]
        /\ Last(At(idx).sent).by = Len(trace)
        /\ ~Pending(At(idx))

(* ------------------------------------------------------------------ *)
(* C2                                                                 *)
(* ------------------------------------------------------------------ *)

\* C2: no double resolution.  On a live session, approval called while no
\* approval is pending leaves the session as it was (nothing is sent, task
\* status and approval state keep their values) and does not raise; and an
\* approval call that directly follows an approval call on the same
\* session sends nothing, so the two calls together send at most the one
\* decision of the first.
C2_NoDoubleResolution ==
    [][\A idx \in SessionIdxs :
         (Did("approval", idx) /\ Live(At(idx))) =>
            /\ ~Pending(At(idx)) =>
                  /\ sessions'[idx + 1] = At(idx)
                  /\ ~Last(trace').raised
            /\ (/\ trace # <<>>
                /\ Last(trace).op = "approval"
                /\ Last(trace).idx = idx) =>
                  /\ sessions'[idx + 1].sent = At(idx).sent
                  /\ Len(SentBy(At(idx), Len(trace))) <= 1]_vars

\* Two approval calls in a row on a live session: the first sent the
\* decision on request "42", the second sent nothing.
C2_Witness ==
    \E idx \in SessionIdxs :
        /\ Live(At(idx))
        /\ Len(trace) >= 2
        /\ Last(trace).op = "approval" /\ Last(trace).idx = idx
        /\ trace[Len(trace) - 1].op = "approval"
        /\ trace[Len(trace) - 1].idx = idx
        /\ Len(SentBy(At(idx), Len(trace) - 1)) = 1
        /\ SentBy(At(idx), Len(trace) - 1)[1].op.id = "42"
        /\ SentBy(At(idx), Len(trace)) = <<>>
        /\ Len(At(idx).sent) = 1

(* ------------------------------------------------------------------ *)
(* C3                                                                 *)
(* ------------------------------------------------------------------ *)

\* The msg.type of a delivered line, "malformed" when it has none.
TypeOf(line) ==
    IF /\ line.json = "object"
       /\ {"id", "msg"} \subseteq DOMAIN line.obj
       /\ "type" \in DOMAIN line.obj.msg
      THEN line.obj.msg.type
      ELSE "malformed"

\* The history entry e is an approval request delivered to session idx.
IsRequest(e, idx) ==
    /\ e.op = "on_line"
    /\ e.idx = idx
    /\ TypeOf(e.line) \in {"exec_approval_request", "apply_patch_approval_request"}

\* The kind of approval a request line asks for.
KindOf(line) ==
    IF TypeOf(line) = "exec_approval_request" THEN "exec" ELSE "patch"

\* The positions before k of the requests delivered to session idx.
RequestsBefore(idx, k) ==
    {j \in 1..Len(trace) : j < k /\ IsRequest(trace[j], idx)}

\* The largest element of a non-empty set of positions.
Max(S) == CHOOSE j \in S : \A i \in S : i <= j

\* C3: requests are never merged.  In every session a pending approval has
\* the kind and the submission id of the request event received last, and
\* every decision sent has the type and the id of the request event that
\* was the last one received before the decision: no decision combines the
\* kind of one request with the id of another.
C3_RequestsNotMerged ==
    \A idx \in SessionIdxs :
        LET s == At(idx) IN
        /\ Pending(s) =>
              LET R == RequestsBefore(idx, Len(trace) + 1) IN
              /\ R # {}
              /\ s.last_approval_request_type = KindOf(trace[Max(R)].line)
              /\ s.last_approval_request_submission_id =
                    trace[Max(R)].line.obj.id
        /\ \A n \in 1..Len(s.sent) :
              IsDecision(s.sent[n]) =>
                 LET R == RequestsBefore(idx, s.sent[n].by) IN
                 /\ R # {}
                 /\ s.sent[n].op.type =
                       (IF KindOf(trace[Max(R)].line) = "exec"
                          THEN "exec_approval" ELSE "patch_approval")
                 /\ s.sent[n].op.id = trace[Max(R)].line.obj.id

\* A patch request "43" was overwritten by an exec request "42", and the
\* decision then given went out as an exec_approval on "42".
C3_Witness ==
    \E idx \in SessionIdxs :
        /\ Len(trace) = 3
        /\ IsRequest(trace[1], idx) /\ KindOf(trace[1].line) = "patch"
        /\ trace[1].line.obj.id = "43"
        /\ IsRequest(trace[2], idx) /\ KindOf(trace[2].line) = "exec"
        /\ trace[2].line.obj.id = "42"
        /\ trace[3].op = "approval" /\ trace[3].idx = idx
        /\ Len(At(idx).sent) = 1
        /\ At(idx).sent[1].op.type = "exec_approval"
        /\ At(idx).sent[1].op.id = "42"

(* ------------------------------------------------------------------ *)
(* C4                                                                 *)
(* ------------------------------------------------------------------ *)

\* The approval sub-state of a session.
ApprovalState(s) ==
    IF Pending(s)
      THEN <<s.last_approval_request_type, s.last_approval_request_submission_id>>
      ELSE <<None, None>>

\* C4: approval is the sole path out of Pending.  Once an approval is
\* pending in a session, a step changes the session's approval sub-state
\* only if it is an approval call on that session or the delivery of an
\* approval request to it, and the sub-state becomes NoPending only by an
\* approval call: no other event, no send_user_message and no interrupt
\* changes it.
C4_SolePath ==
    [][\A idx \in SessionIdxs :
         Pending(At(idx)) =>
            LET s == At(idx)
                t == sessions'[idx + 1]
            IN  /\ ~Pending(t) => Did("approval", idx)
                /\ ApprovalState(t) # ApprovalState(s) =>
                      \/ Did("approval", idx)
                      \/ Did("on_line", idx) /\ IsRequest(Last(trace'), idx)]_vars

\* An approval stayed pending across a task_complete event and an
\* interrupt call.
C4_Witness ==
    \E idx \in SessionIdxs :
        /\ Len(trace) = 3
        /\ IsRequest(trace[1], idx)
        /\ trace[2].op = "on_line" /\ trace[2].idx = idx
        /\ TypeOf(trace[2].line) = "task_complete"
        /\ trace[3].op = "interrupt" /\ trace[3].idx = idx
        /\ Pending(At(idx))
        /\ Len(At(idx).sent) = 1

(* ------------------------------------------------------------------ *)
(* C5                                                                 *)
(* ------------------------------------------------------------------ *)

\* The types of the lines delivered to session idx, in order.
EventTypes(idx) ==
    LET on == SelectSeq(trace, LAMBDA e : e.op = "on_line" /\ e.idx = idx)
    IN  [j \in 1..Len(on) |-> TypeOf(on[j].line)]

\* task_started, any number of agent_message, then task_complete.
IsStartMessagesComplete(types) ==
    /\ Len(types) >= 2
    /\ types[1] = "task_started"
    /\ types[Len(types)] = "task_complete"
    /\ \A j \in 2..(Len(types) - 1) : types[j] = "agent_message"

\* C5: task life cycle of a live session.  The session starts Idle; a
\* task_started event makes it Busy and sets the "thinking" title, a
\* task_complete event makes it Idle and sets the "ready" title, any other
\* event leaves the status and the titles as they were; so after
\* task_started, agent_message events and task_complete the titles set
\* since creation are "thinking" then "ready", and the session is Idle.
C5_TaskLifecycle ==
    /\ [](\A idx \in SessionIdxs :
            LET s == At(idx) IN
            Live(s) =>
               /\ EventTypes(idx) = <<>> =>
                     Status(s) = "Idle" /\ s.titles = <<TitleReady>>
               /\ IsStartMessagesComplete(EventTypes(idx)) =>
                     /\ Status(s) = "Idle"
                     /\ s.titles = <<TitleReady, TitleThinking, TitleReady>>)
    /\ [][\A idx \in SessionIdxs :
            (Did("on_line", idx) /\ Live(At(idx))) =>
               LET s == At(idx)
                   t == sessions'[idx + 1]
                   type == TypeOf(Last(trace').line)
               IN  IF type = "task_started"
                     THEN /\ Status(t) = "Busy"
                          /\ t.titles = Append(s.titles, TitleThinking)
                   ELSE IF type = "task_complete"
                     THEN /\ Status(t) = "Idle"
                          /\ t.titles = Append(s.titles, TitleReady)
                   ELSE /\ Status(t) = Status(s)
                        /\ t.titles = s.titles]_vars

\* task_started, agent_message, task_complete were delivered to a live
\* session, which is Idle again with one "ready" title set at the end.
C5_Witness ==
    \E idx \in SessionIdxs :
        /\ Live(At(idx))
        /\ EventTypes(idx) = <<"task_started", "agent_message", "task_complete">>
        /\ Status(At(idx)) = "Idle"
        /\ At(idx).titles = <<TitleReady, TitleThinking, TitleReady>>

(* ------------------------------------------------------------------ *)
(* C6                                                                 *)
(* ------------------------------------------------------------------ *)

\* The positions of the stop() calls made on session idx.
Stops(idx) ==
    {j \in 1..Len(trace) : trace[j].op = "stop" /\ trace[j].idx = idx}

\* C6: stop is terminal and idempotent.  Once stop() was called on a
\* session, a further stop() call and the delivery of any line to it
\* raise nothing and leave the session as it was: nothing is sent, nothing
\* is shown, no field changes.
C6_StopTerminal ==
    [][\A idx \in SessionIdxs :
         (Stops(idx) # {} /\ (Did("stop", idx) \/ Did("on_line", idx))) =>
            /\ sessions'[idx + 1] = At(idx)
            /\ ~Last(trace').raised]_vars

(* ------------------------------------------------------------------ *)
(* C7                                                                 *)
(* ------------------------------------------------------------------ *)

\* The smallest element of a non-empty set of positions.
Min(S) == CHOOSE j \in S : \A i \in S : j <= i

\* No line reached session idx after the first stop() call on it.
NoLineAfterStop(idx) ==
    \A j \in 1..Len(trace) :
        (trace[j].op = "on_line" /\ trace[j].idx = idx) => j < Min(Stops(idx))

\* C7: stop discards the pending approval without a decision.  In a
\* session stop() was called on (and that no line reached since), no
\* approval is pending, and no decision was handed to the job by the
\* stop() call or by any approval call after it.
C7_StopDiscardsApproval ==
    \A idx \in SessionIdxs :
        (Stops(idx) # {} /\ NoLineAfterStop(idx)) =>
           /\ ~Pending(At(idx))
           /\ \A n \in 1..Len(At(idx).sent) :
                 IsDecision(At(idx).sent[n]) =>
                    At(idx).sent[n].by < Min(Stops(idx))

(* ------------------------------------------------------------------ *)
(* C8                                                                 *)
(* ------------------------------------------------------------------ *)

\* The history entry e is the event of the given type delivered to idx.
IsEvent(e, idx, type) ==
    e.op = "on_line" /\ e.idx = idx /\ TypeOf(e.line) = type

\* The exec_command_end events for call_id c delivered to idx after k.
EndsAfter(idx, k, c) ==
    {j \in 1..Len(trace) :
        /\ j > k
        /\ IsEvent(trace[j], idx, "exec_command_end")
        /\ trace[j].line.obj.msg.call_id = c}

\* What the entry of the command begun at k should display: running until
\* an exec_command_end with its call_id arrives, then that event's outcome.
ExpectedEntry(idx, k) ==
    LET ends == EndsAfter(idx, k, trace[k].line.obj.msg.call_id) IN
    IF ends = {} THEN <<RunningPattern>>
    ELSE IF trace[Min(ends)].line.obj.msg.exit_code = 0
      THEN <<"command (OK)">>
      ELSE <<"command (ERROR)">>

\* C8: command correlation by call_id.  In a live session the entry an
\* exec_command_begin event created shows "running" until an
\* exec_command_end event with the same call_id arrives, and from then on
\* OK for exit code 0 and ERROR otherwise, whatever other events, with
\* other call_ids, were delivered in between.
C8_CorrelationByCallId ==
    \A idx \in SessionIdxs :
        Live(At(idx)) =>
           \A k \in 1..Len(trace) :
              (IsEvent(trace[k], idx, "exec_command_begin") /\ ~trace[k].raised) =>
                 \E n \in 1..Len(At(idx).output_buffer) :
                    /\ At(idx).output_buffer[n].by = k
                    /\ At(idx).output_buffer[n].text = ExpectedEntry(idx, k)

(* ------------------------------------------------------------------ *)
(* C9                                                                 *)
(* ------------------------------------------------------------------ *)

\* C9: sending is never gated.  On a live session, in every task status
\* and with or without a pending approval, an interrupt call and a
\* send_user_message call each return normally having handed exactly one
\* more submission to the job, of type interrupt respectively user_input,
\* and leave the task status as it was.
C9_SendingNeverGated ==
    [][\A idx \in SessionIdxs :
         (Live(At(idx)) /\ (Did("interrupt", idx) \/ Did("send_user_message", idx))) =>
            LET s == At(idx)
                t == sessions'[idx + 1]
            IN  /\ ~Last(trace').raised
                /\ Len(t.sent) = Len(s.sent) + 1
                /\ SubSeq(t.sent, 1, Len(s.sent)) = s.sent
                /\ Last(t.sent).op.type =
                      (IF Last(trace').op = "interrupt" THEN "interrupt"
                                                        ELSE "user_input")
                /\ Status(t) = Status(s)]_vars

(* ------------------------------------------------------------------ *)
(* C10                                                                *)
(* ------------------------------------------------------------------ *)

\* The calls that left a "user" notification in the output of s, in the
\* order of the notifications.
UserNotifications(s) ==
    LET heads == SelectSeq(s.output_buffer, LAMBDA x : x.text = L("user"))
    IN  [j \in 1..Len(heads) |-> heads[j].by]

\* The calls that sent a user_input submission of s, in sending order.
UserInputs(s) ==
    LET subs == SelectSeq(s.sent, LAMBDA x : x.op.type = "user_input")
    IN  [j \in 1..Len(subs) |-> subs[j].by]

\* The lines of the output of s written by call k.
WrittenBy(s, k) ==
    LET w == SelectSeq(s.output_buffer, LAMBDA x : x.by = k)
    IN  [j \in 1..Len(w) |-> w[j].text]

\* C10: on a live session a send_user_message call with the text of the
\* prompt buffer sends exactly one user_input submission whose items are
\* the single text item holding that text, and appends exactly one "user"
\* notification showing it; the notifications in the output are in the
\* order of the user_input submissions.
C10_UserMessage ==
    /\ [](\A idx \in SessionIdxs :
            Live(At(idx)) => UserNotifications(At(idx)) = UserInputs(At(idx)))
    /\ [][\A idx \in SessionIdxs :
            (Live(At(idx)) /\ Did("send_user_message", idx)) =>
               LET s == At(idx)
                   t == sessions'[idx + 1]
                   text == s.input_buffer
               IN  /\ Len(t.sent) = Len(s.sent) + 1
                   /\ SubSeq(t.sent, 1, Len(s.sent)) = s.sent
                   /\ Last(t.sent).op =
                         [type |-> "user_input",
                          items |-> <<[type |-> "text", text |-> text]>>]
                   /\ WrittenBy(t, Len(trace')) =
                         <<EmptyLine, L("user")>> \o text \o <<EmptyLine>>]_vars

(* ------------------------------------------------------------------ *)
(* C11                                                                *)
(* ------------------------------------------------------------------ *)

\* The positions in the submissions of s of the configure_session ones.
Configures(s) ==
    {n \in 1..Len(s.sent) : s.sent[n].op.type = "configure_session"}

\* C11: starting a session issues configure_session.  In every session the
\* first submission handed to the job is a configure_session submission,
\* and the session hands over at most one configure_session submission.
C11_ConfigureFirst ==
    \A idx \in SessionIdxs :
        LET s == At(idx) IN
        /\ s.sent # <<>> => s.sent[1].op.type = "configure_session"
        /\ Cardinality(Configures(s)) <= 1

(* ------------------------------------------------------------------ *)
(* C12                                                                *)
(* ------------------------------------------------------------------ *)

\* The line is a JSON object holding an id and a msg.
IsWellFormed(line) ==
    line.json = "object" /\ {"id", "msg"} \subseteq DOMAIN line.obj

\* The tags EventMessage.from_dict knows.
RecognizedTypes ==
    {"error", "task_started", "task_complete", "token_count", "agent_message",
     "agent_reasoning", "session_configured", "mcp_tool_call_begin",
     "mcp_tool_call_end", "exec_command_begin", "exec_command_end",
     "exec_approval_request", "apply_patch_approval_request",
     "background_event", "patch_apply_begin", "patch_apply_end",
     "get_history_entry_response"}

\* The name under which an informational event is rendered, "UnknownEvent"
\* for a msg whose type is absent or no recognized tag.
RenderedAs(msg) ==
    IF "type" \notin DOMAIN msg \/ msg.type \notin RecognizedTypes
      THEN "UnknownEvent"
    ELSE IF msg.type = "token_count" THEN "TokenCount"
    ELSE IF msg.type = "background_event" THEN "BackgroundEvent"
    ELSE IF msg.type = "mcp_tool_call_begin" THEN "McpToolCallBeginEvent"
    ELSE IF msg.type = "mcp_tool_call_end" THEN "McpToolCallEndEvent"
    ELSE IF msg.type = "session_configured" THEN "SessionConfiguredEvent"
    ELSE IF msg.type = "get_history_entry_response"
      THEN "GetHistoryEntryResponseEvent"
    ELSE "handled"

\* The line carries an unknown or informational event whose payload decodes.
IsInformational(line) ==
    /\ IsWellFormed(line)
    /\ RenderedAs(line.obj.msg) # "handled"
    /\ ~("entry" \in DOMAIN line.obj.msg
           /\ DOMAIN line.obj.msg.entry # {"session_id", "ts", "text"})

C13_MalformedLine ==
    [][\A idx \in SessionIdxs :
         (/\ Did("on_line", idx)
          /\ Live(At(idx))
          /\ ~IsWellFormed(Last(trace').line)) =>
            LET s == At(idx)
                t == sessions'[idx + 1]
            IN  /\ ~Last(trace').raised
                /\ Status(t) = Status(s)
                /\ ApprovalState(t) = ApprovalState(s)
                /\ t.output_buffer = s.output_buffer
                /\ t.sent = s.sent]_vars

(* ------------------------------------------------------------------ *)
(* C14                                                                *)
(* ------------------------------------------------------------------ *)

\* C14: session indices are never reused.  Every session sits in
\* CodexSession.sessions at its own session_idx; a step that creates a
\* session gives it an index greater than the index of every session
\* created before, stopped ones included; no session ever leaves the list
\* or changes its index, and a stopped session is never started again under
\* its index; and a line delivered for index idx changes the session
\* created with that index and no other.
C14_IndicesNeverReused ==
    /\ [](\A idx \in SessionIdxs : At(idx).session_idx = idx)
    /\ [][/\ Len(sessions') >= Len(sessions)
          /\ \A idx \in SessionIdxs :
                /\ sessions'[idx + 1].session_idx = At(idx).session_idx
                /\ At(idx).job = "killed" => sessions'[idx + 1].job = "killed"
                /\ Len(sessions') > Len(sessions) =>
                      Last(sessions').session_idx > At(idx).session_idx
                /\ \A other \in SessionIdxs :
                      (Did("on_line", idx) /\ other # idx) =>
                         sessions'[other + 1] = At(other)]_vars

\* Session 0 was stopped, session 1 was created after it with index 1, and
\* a line delivered late for index 0 left session 1 as it was created.
C14_Witness ==
    /\ Len(sessions) = 2
    /\ Len(trace) = 2
    /\ trace[1].op = "stop" /\ trace[1].idx = 0
    /\ trace[2].op = "on_line" /\ trace[2].idx = 0
    /\ At(0).job = "killed" /\ At(0).session_idx = 0
    /\ At(1) = NewSession(1)
    /\ codex_session = 1

(* ------------------------------------------------------------------ *)
(* C15                                                                *)
(* ------------------------------------------------------------------ *)

\* The indices of the sessions started and not yet stopped.
LiveSessions == {idx \in SessionIdxs : Live(At(idx))}

\* C15: singleton start and stop.  When sessions are stopped through
\* stop_codex_session only, at most one session is live at any time, and
\* it is the one codex_session names; a step taken while a session is live
\* creates no session and starts no job; a step taken while none is live
\* stops nothing: no stop() call is made and no job is killed.
C15_Singleton ==
    /\ [](/\ Cardinality(LiveSessions) <= 1
          /\ LiveSessions =
                (IF codex_session = NoSession THEN {} ELSE {codex_session}))
    /\ [][/\ LiveSessions # {} =>
                /\ Len(sessions') = Len(sessions)
                /\ \A idx \in SessionIdxs :
                      sessions'[idx + 1].job = "run" => At(idx).job = "run"
          /\ LiveSessions = {} =>
                /\ \A idx \in SessionIdxs :
                      /\ ~Did("stop", idx)
                      /\ sessions'[idx + 1].job = At(idx).job]_vars

\* A second session is live after the first was stopped, and the first one
\* was created, stopped and left behind: two sessions, one live.
C15_Witness ==
    /\ Len(sessions) = 2
    /\ LiveSessions = {1}
    /\ codex_session = 1
    /\ Stops(0) # {}

(* ------------------------------------------------------------------ *)
(* C16                                                                *)
(* ------------------------------------------------------------------ *)

\* C16: submission ids are never reused within a session.  Of the
\* submissions a session handed to its job, whatever calls (interrupt,
\* send_user_message, approval) sent them, no two carry the same top-level
\* id.
C16_IdsNeverReused ==
    \A idx \in SessionIdxs :
        \A m, n \in 1..Len(At(idx).sent) :
            m # n => At(idx).sent[m].id # At(idx).sent[n].id

\* A session sent three submissions, user messages and interrupts, under
\* three different ids.
C16_Witness ==
    \E idx \in SessionIdxs :
        LET sent == At(idx).sent IN
        /\ Len(sent) = 3
        /\ {sent[n].op.type : n \in 1..3} = {"user_input", "interrupt"}
        /\ Cardinality({sent[n].id : n \in 1..3}) = 3

(* ------------------------------------------------------------------ *)
(* C17                                                                *)
(* ------------------------------------------------------------------ *)

\* C17: approval clears every approval preview.  Right after an approval
\* call on a live session that handed a decision to the job, the prompt
\* buffer shows no approval status and no window shows a diff preview,
\* whatever requests were received before the decision.
C17_PreviewCleared ==
    [][\A idx \in SessionIdxs :
         (/\ Did("approval", idx)
          /\ Live(At(idx))
          /\ Len(sessions'[idx + 1].sent) > Len(At(idx).sent)) =>
            /\ sessions'[idx + 1].input_buffer = EmptyBuffer
            /\ ~sessions'[idx + 1].patch_window]_vars

(* ------------------------------------------------------------------ *)
(* C18                                                                *)
(* ------------------------------------------------------------------ *)

\* The exec_command_begin events for call_id c that session idx rendered.
BeginsFor(idx, c) ==
    {j \in 1..Len(trace) :
        /\ IsEvent(trace[j], idx, "exec_command_begin")
        /\ ~trace[j].raised
        /\ trace[j].line.obj.msg.call_id = c}

\* C18: an exec_command_end without a begin is appended.  On a live session
\* the delivery of an exec_command_end event whose call_id is the call_id
\* of no exec_command_begin rendered before raises nothing, adds an entry
\* of its own to the output and leaves the lines shown before as they
\* were.
C18_UnmatchedEndAppended ==
    [][\A idx \in SessionIdxs :
         (/\ Did("on_line", idx)
          /\ Live(At(idx))
          /\ IsEvent(Last(trace'), idx, "exec_command_end")
          /\ BeginsFor(idx, Last(trace').line.obj.msg.call_id) = {}) =>
            LET s == At(idx)
                t == sessions'[idx + 1]
            IN  /\ ~Last(trace').raised
                /\ Len(t.output_buffer) > Len(s.output_buffer)
                /\ WrittenBy(t, Len(trace')) # <<>>
                /\ SubSeq(t.output_buffer, 1, Len(s.output_buffer)) =
                      s.output_buffer]_vars

(* ------------------------------------------------------------------ *)
(* C19                                                                *)
(* ------------------------------------------------------------------ *)

\* The type a proposed change is shown with: its own when it is add,
\* delete or update, delete otherwise.
ShownType(d) ==
    IF "type" \in DOMAIN d /\ d.type \in {"add", "delete", "update"}
      THEN d.type ELSE "delete"

\* The positions of the update-type changes in the changes of a request.
UpdatePositions(items) ==
    {j \in 1..Len(items) : ShownType(items[j].change) = "update"}

ProposedChanges ==
    UNION {{trace[k].line.obj.msg.changes[j].change :
               j \in 1..Len(trace[k].line.obj.msg.changes)} :
           k \in {k \in 1..Len(trace) :
                     trace[k].op = "on_line" /\
                     TypeOf(trace[k].line) = "apply_patch_approval_request"}}

\* C20: FileChange decoding is total, with a delete fallback.  Every
\* proposed change decodes, the request that carries it raising nothing on
\* a live session: a change of type add, delete or update decodes to that
\* type, any other or missing type to delete; an add carries the content
\* given and nothing else, a delete carries nothing, an update carries the
\* unified diff and the move path given (None when absent) and no content.
C20_FileChangeDecoding ==
    /\ \A d \in ProposedChanges :
          LET c == FileChange_from_dict(d) IN
          /\ c.type = ShownType(d)
          /\ c.content =
                (IF c.type = "add" THEN Get(d, "content", None) ELSE None)
          /\ c.unified_diff =
                (IF c.type = "update" THEN Get(d, "unified_diff", None) ELSE None)
          /\ c.move_path =
                (IF c.type = "update" THEN Get(d, "move_path", None) ELSE None)
    /\ \A k \in 1..Len(trace) :
          (/\ trace[k].op = "on_line"
           /\ TypeOf(trace[k].line) = "apply_patch_approval_request"
           /\ Stops(trace[k].idx) = {}) => ~trace[k].raised

\* A request whose changes have the type "rename" and no type at all was
\* delivered to a live session: both are shown as delete, no preview opens.
C20_Witness ==
    \E idx \in SessionIdxs :
        /\ Live(At(idx))
        /\ Len(trace) = 1
        /\ trace[1].line = PatchRequestLine("42", <<RenameF, NoTypeG>>)
        /\ ~trace[1].raised
        /\ At(idx).input_buffer =
              <<L("PATCH APPROVAL REQUEST: "),
                <<"delete", " ", "f.py">>, <<"delete", " ", "g.py">>>>
        /\ ~At(idx).patch_window
        /\ FileChange_from_dict(RenameF.change).type = "delete"

(* ------------------------------------------------------------------ *)
(* C21                                                                *)
(* ------------------------------------------------------------------ *)

\* C21: sessions are isolated.  A step that is a call on the session of
\* index idx (the delivery of a line of its job, send_user_message,
\* interrupt, approval or stop) changes neither the task status nor the
\* approval state of a session of another index, and the delivery of a
\* line leaves every field of the other sessions as it was.
C21_SessionsIsolated ==
    [][\A idx \in SessionIdxs, other \in SessionIdxs :
         (/\ other # idx
          /\ Len(trace') = Len(trace) + 1
          /\ Last(trace').idx = idx) =>
            /\ Status(sessions'[other + 1]) = Status(At(other))
            /\ ApprovalState(sessions'[other + 1]) = ApprovalState(At(other))
            /\ Last(trace').op = "on_line" =>
                  sessions'[other + 1] = At(other)]_vars

\* Two sessions exist: session 0 has received an approval request, and a
\* task_started line of session 1 made session 1 busy while session 0 kept
\* its idle status and its request.
C21_Witness ==
    /\ Len(sessions) = 2
    /\ Len(trace) = 3
    /\ IsRequest(trace[1], 0)
    /\ IsEvent(trace[3], 1, "task_started")
    /\ Status(At(1)) = "Busy" /\ ~Pending(At(1))
    /\ Status(At(0)) = "Idle"
    /\ ApprovalState(At(0)) = <<KindOf(trace[1].line), trace[1].line.obj.id>>

(* ------------------------------------------------------------------ *)
(* C22                                                                *)
(* ------------------------------------------------------------------ *)

\* C22: event dispatch never sends.  The delivery of a line, whatever the
\* variant of its event, leaves the submissions of every session as they
\* were; every submission a session handed to its job was sent by a
\* send_user_message, interrupt or approval call on that session, and
\* every approval decision by an approval call.
C22_DispatchNeverSends ==
    /\ [](\A idx \in SessionIdxs :
            \A n \in 1..Len(At(idx).sent) :
               LET x == At(idx).sent[n] IN
               /\ x.by \in 1..Len(trace)
               /\ trace[x.by].idx = idx
               /\ trace[x.by].op \in {"send_user_message", "interrupt", "approval"}
               /\ IsDecision(x) <=> trace[x.by].op = "approval"
               /\ x.op.type = "user_input" <=> trace[x.by].op = "send_user_message"
               /\ x.op.type = "interrupt" <=> trace[x.by].op = "interrupt")
    /\ [][\A idx \in SessionIdxs :
            Did("on_line", idx) =>
               \A any \in SessionIdxs :
                  sessions'[any + 1].sent = At(any).sent]_vars

\* An approval request was delivered and later events followed it, and the
\* session has sent nothing: the request is still pending.
C22_Witness ==
    \E idx \in SessionIdxs :
        /\ Live(At(idx))
        /\ Len(trace) = 3
        /\ IsRequest(trace[1], idx)
        /\ IsEvent(trace[2], idx, "task_complete")
        /\ IsEvent(trace[3], idx, "exec_command_end")
        /\ At(idx).sent = <<>>
        /\ Pending(At(idx))

(* ------------------------------------------------------------------ *)
(* C23                                                                *)
(* ------------------------------------------------------------------ *)

\* The approval decisions session s handed to its job.
Decisions(s) == SelectSeq(s.sent, IsDecision)

\* The ids of the approval requests delivered to session idx before k.
RequestIdsBefore(idx, k) ==
    {trace[j].line.obj.id : j \in RequestsBefore(idx, k)}

C24_ReadOnlyWhilePending ==
    \A idx \in SessionIdxs :
        Live(At(idx)) => (~At(idx).input_modifiable <=> Pending(At(idx)))

\* A live session answered one request and then received another: the
\* prompt buffer was writable in between and is read-only again.
C24_Witness ==
    \E idx \in SessionIdxs :
        /\ Live(At(idx))
        /\ Len(trace) = 3
        /\ IsRequest(trace[1], idx)
        /\ trace[2].op = "approval" /\ trace[2].idx = idx
        /\ IsRequest(trace[3], idx)
        /\ Len(At(idx).sent) = 1
        /\ Pending(At(idx))
        /\ ~At(idx).input_modifiable

====
